---- MODULE Spec2Model ----
(***************************************************************************)
(* Model of the incremental audio pipeline of main.py:                     *)
(*   first_step            : registrar + transcription + persistence       *)
(*   process_all_unprocessed: sentence segmentation                        *)
(* The relational store is modelled by its committed tables plus, for     *)
(* each open connection, the rows written but not yet committed and the   *)
(* "transaction aborted" state a failed statement leaves it in.           *)
(* The program never reads the id of a transcript or sentence row, nor    *)
(* the model and created_at columns: these two tables are bags of rows    *)
(* without those columns.                                                  *)
(***************************************************************************)
EXTENDS Integers, Sequences, FiniteSets, Bags, TLC

(* ---------------------------------------------------------------------- *)
(* Bounds                                                                  *)
(* ---------------------------------------------------------------------- *)
\* number of client invocations explored: runs of first_step and calls of
\* store_transcription or process_file_transcripts from outside the two loops
MaxRuns == 2

(* ---------------------------------------------------------------------- *)
(* Values                                                                  *)
(* ---------------------------------------------------------------------- *)
\* A path is the folder, the base name's '_'-separated numeric fields and
\* the extension.  A field below 1000 is written with at most two digits, a
\* field in 1000..9999 with four; <<>> is a base name with no numeric fields.
MkPath(stem, ext) == [folder |-> "rec", stem |-> stem, ext |-> ext]

P_ymd == MkPath(<<2024, 3, 5>>, "m4a")
P_dmy == MkPath(<<5, 3, 2024>>, "m4a")
P_bad == MkPath(<<2024, 2, 30>>, "m4a")
P_late == MkPath(<<2024, 3, 7>>, "m4a")
P_wav == MkPath(<<2024, 3, 6>>, "wav")

Paths == {P_ymd, P_dmy, P_bad, P_late}

\* the folder when the pipeline is first run, the recordings of which one
\* arrives later and the recordings that are rewritten later
Folder == {P_ymd, P_dmy, P_wav}
Arrivals == Paths \ Folder
Rewritable == {P_ymd}
\* the recordings for which a method is called from outside the two loops
Recalled == {P_ymd}

\* what get_file_metadata reads from the disk: a file AudioSegment.from_file
\* can decode (readable) with its size, creation time and duration, or one it
\* cannot decode
Meta1 == [readable |-> TRUE, filesize |-> 100, date_created |-> 1, duration_seconds |-> 60]
Meta2 == [readable |-> TRUE, filesize |-> 200, date_created |-> 2, duration_seconds |-> 90]
Malformed == [readable |-> FALSE, filesize |-> 50, date_created |-> 1, duration_seconds |-> 0]
Metas == {Meta1, Meta2}

Range(s) == {s[k] : k \in DOMAIN s}

Perms(S) == {s \in [1..Cardinality(S) -> S] : Range(s) = S}

\* the bag of the elements of a sequence
BagOfSeq(s) == [x \in Range(s) |-> Cardinality({k \in DOMAIN s : s[k] = x})]

(* ---------------------------------------------------------------------- *)
(* Date derivation (store_transcription, lines 137-144)                    *)
(* ---------------------------------------------------------------------- *)
IsLeap(y) == (y % 4 = 0 /\ y % 100 # 0) \/ y % 400 = 0

DaysInMonth(y, m) ==
    IF m = 2 THEN (IF IsLeap(y) THEN 29 ELSE 28)
    ELSE IF m \in {4, 6, 9, 11} THEN 30 ELSE 31

ValidDate(y, m, d) ==
    /\ y \in 1000..9999
    /\ m \in 1..12
    /\ d \in 1..DaysInMonth(y, m)

\* datetime.strptime(date_str, '%Y_%m_%d').date()
strptime_Ymd(s) ==
    IF Len(s) = 3 /\ ValidDate(s[1], s[2], s[3])
    THEN [exc |-> "none", date |-> <<s[1], s[2], s[3]>>]
    ELSE [exc |-> "ValueError", date |-> <<>>]

\* datetime.strptime(date_str, '%d_%m_%Y').date()
strptime_dmY(s) ==
    IF Len(s) = 3 /\ ValidDate(s[3], s[2], s[1])
    THEN [exc |-> "none", date |-> <<s[3], s[2], s[1]>>]
    ELSE [exc |-> "ValueError", date |-> <<>>]

\* os.path.basename(filepath).split('.')[0]
date_str(filepath) == filepath.stem

\* faulty variant: an unparseable name falls back to a default date
date_recorded_default(filepath) ==
    LET a == strptime_Ymd(date_str(filepath))
        b == strptime_dmY(date_str(filepath))
    IN  IF a.exc = "none" THEN a
        ELSE IF b.exc = "none" THEN b
        ELSE [exc |-> "none", date |-> <<1970, 1, 1>>]

date_recorded(filepath) ==
    LET a == strptime_Ymd(date_str(filepath))
        b == strptime_dmY(date_str(filepath))
    IN  IF a.exc = "none" THEN a
        ELSE IF b.exc = "none" THEN b
        ELSE [exc |-> "ValueError", date |-> <<>>]

(* ---------------------------------------------------------------------- *)
(* Offsets and their conversion (store_transcription, lines 154-155)       *)
(* ---------------------------------------------------------------------- *)
\* An offset is None, a number of seconds, or one of three values that stand
\* for the ways datetime.fromtimestamp rejects its argument:
\*   "str"  a non-number                 -> TypeError
\*   "1e13" a year beyond 9999           -> ValueError
\*   "1e20" beyond the platform time_t   -> OverflowError
None == [kind |-> "None", v |-> 0]
Secs(x) == [kind |-> "num", v |-> x]
NotANumber == [kind |-> "str", v |-> 0]
YearOutOfRange == [kind |-> "1e13", v |-> 0]
TimeTOverflow == [kind |-> "1e20", v |-> 0]

\* datetime.fromtimestamp(x).time(), local zone UTC, whole seconds
fromtimestamp(x) ==
    IF x.kind = "num" THEN [exc |-> "none", time |-> x.v % 86400]
    ELSE IF x.kind = "1e13" THEN [exc |-> "ValueError", time |-> 0]
    ELSE IF x.kind = "1e20" THEN [exc |-> "OverflowError", time |-> 0]
    ELSE [exc |-> "TypeError", time |-> 0]

\* A text is a sequence of characters; NoText stands for a chunk whose text
\* is None (the transcripts.transcript column is NOT NULL).
NoText == <<"None">>

Chunk(a, b, t) == [timestamp |-> <<a, b>>, text |-> t]

\* "if not chunk['timestamp'] or None in chunk['timestamp']"
SkipTimestamp(chunk) ==
    \/ chunk.timestamp = <<>>
    \/ \E k \in DOMAIN chunk.timestamp : chunk.timestamp[k] = None

(* ---------------------------------------------------------------------- *)
(* Transcript persistence (store_transcription, lines 131-179)             *)
(* ---------------------------------------------------------------------- *)
TranscriptRow(file_id, date, time_from, time_to, text) ==
    [file_id |-> file_id, date_recorded |-> date,
     time_from |-> time_from, time_to |-> time_to, transcript |-> text]

\* One pass of the loop body (lines 147-171) for one chunk:
\*   "skip"   the chunk is left out and the loop continues
\*   "insert" the INSERT succeeded
\*   "raise"  an exception leaves the loop (exc names it)
ChunkStep(chunk) ==
    IF SkipTimestamp(chunk) THEN [act |-> "skip", exc |-> "none"]
    ELSE LET f == fromtimestamp(chunk.timestamp[1])
             t == fromtimestamp(chunk.timestamp[2])
             e == IF f.exc # "none" THEN f.exc ELSE t.exc
         IN  IF e \in {"TypeError", "ValueError"} THEN [act |-> "skip", exc |-> "none"]
             ELSE IF e # "none" THEN [act |-> "raise", exc |-> e]
             ELSE IF chunk.text = NoText THEN [act |-> "raise", exc |-> "IntegrityError"]
             ELSE [act |-> "insert", exc |-> "none"]

\* faulty variant: a chunk that is left out ends the loop (break for continue)
RECURSIVE StoreChunks_break(_, _, _, _, _)
StoreChunks_break(chunks, k, file_id, date, rows) ==
    IF k > Len(chunks) THEN [exc |-> "none", rows |-> rows]
    ELSE LET st == ChunkStep(chunks[k])
         IN  IF st.act = "skip"
             THEN [exc |-> "none", rows |-> rows]
             ELSE IF st.act = "raise"
             THEN [exc |-> st.exc, rows |-> rows]
             ELSE StoreChunks_break(chunks, k + 1, file_id, date,
                      Append(rows, TranscriptRow(file_id, date,
                                 fromtimestamp(chunks[k].timestamp[1]).time,
                                 fromtimestamp(chunks[k].timestamp[2]).time,
                                 chunks[k].text)))

\* the loop of lines 147-171 from chunk k on; rows are the rows inserted so
\* far, in order
RECURSIVE StoreChunks(_, _, _, _, _)
StoreChunks(chunks, k, file_id, date, rows) ==
    IF k > Len(chunks) THEN [exc |-> "none", rows |-> rows]
    ELSE LET st == ChunkStep(chunks[k])
         IN  IF st.act = "skip"
             THEN StoreChunks(chunks, k + 1, file_id, date, rows)
             ELSE IF st.act = "raise"
             THEN [exc |-> st.exc, rows |-> rows]
             ELSE StoreChunks(chunks, k + 1, file_id, date,
                      Append(rows, TranscriptRow(file_id, date,
                                 fromtimestamp(chunks[k].timestamp[1]).time,
                                 fromtimestamp(chunks[k].timestamp[2]).time,
                                 chunks[k].text)))

\* "SELECT id FROM files WHERE filepath = %s"; fetchone()[0]
FileId(tbl, filepath) == (CHOOSE r \in tbl : r.filepath = filepath).id

\* faulty variant: the UPDATE and the commit sit in a finally clause and run
\* when the chunk loop raises, too
store_transcription_finally(tbl, aborted, filepath, transcription_result) ==
    IF aborted
    THEN [exc |-> "InFailedSqlTransaction", rows |-> <<>>,
          mark |-> FALSE, commit |-> FALSE, abort |-> TRUE]
    ELSE LET file_id == FileId(tbl, filepath)
             d == date_recorded(filepath)
         IN  IF d.exc # "none"
             THEN [exc |-> d.exc, rows |-> <<>>,
                   mark |-> FALSE, commit |-> FALSE, abort |-> FALSE]
             ELSE LET r == StoreChunks(transcription_result, 1, file_id, d.date, <<>>)
                  IN  [exc |-> r.exc, rows |-> r.rows,
                       mark |-> r.exc # "IntegrityError",
                       commit |-> r.exc # "IntegrityError",
                       abort |-> r.exc = "IntegrityError"]

\* The whole call on a connection whose transaction is aborted or not.
\*   exc    : the exception the call raises, "none" when it returns
\*   rows   : the transcript rows it inserted, in order
\*   mark   : the UPDATE of line 174 was executed
\*   commit : the commit of line 179 was executed
\*   abort  : a statement was rejected by the store, which leaves the
\*            connection's transaction aborted
store_transcription(tbl, aborted, filepath, transcription_result) ==
    IF aborted
    THEN [exc |-> "InFailedSqlTransaction", rows |-> <<>>,
          mark |-> FALSE, commit |-> FALSE, abort |-> TRUE]
    ELSE LET file_id == FileId(tbl, filepath)
             d == date_recorded(filepath)
         IN  IF d.exc # "none"
             THEN [exc |-> d.exc, rows |-> <<>>,
                   mark |-> FALSE, commit |-> FALSE, abort |-> FALSE]
             ELSE LET r == StoreChunks(transcription_result, 1, file_id, d.date, <<>>)
                  IN  [exc |-> r.exc, rows |-> r.rows,
                       mark |-> r.exc = "none", commit |-> r.exc = "none",
                       abort |-> r.exc = "IntegrityError"]

(* ---------------------------------------------------------------------- *)
(* Registrar (get_file_metadata, get_unprocessed_files, lines 99-125)      *)
(* ---------------------------------------------------------------------- *)
\* Path(self.audio_folder).glob('*.m4a') over the files present on the disk
Glob(dsk) == {p \in DOMAIN dsk : p.ext = "m4a"}

\* faulty variant: a file that cannot be decoded is given the metadata the
\* disk shows and no exception is raised
get_file_metadata_swallowed(dsk, filepath) ==
    [exc |-> "none",
     filepath |-> filepath,
     filesize |-> dsk[filepath].filesize,
     date_created |-> dsk[filepath].date_created,
     duration_seconds |-> dsk[filepath].duration_seconds]

\* get_file_metadata: AudioSegment.from_file raises for a file it cannot
\* decode, otherwise the four parameters of the INSERT
get_file_metadata(dsk, filepath) ==
    [exc |-> IF dsk[filepath].readable THEN "none" ELSE "CouldntDecodeError",
     filepath |-> filepath,
     filesize |-> dsk[filepath].filesize,
     date_created |-> dsk[filepath].date_created,
     duration_seconds |-> dsk[filepath].duration_seconds]

FileRow(id, metadata) ==
    [id |-> id, filepath |-> metadata.filepath, filesize |-> metadata.filesize,
     date_created |-> metadata.date_created,
     duration_seconds |-> metadata.duration_seconds, processed |-> FALSE]

\* faulty variant: a plain INSERT, a second row for a path already there
InsertFile_always(tbl, seq, metadata) ==
    [tbl |-> tbl \cup {FileRow(seq + 1, metadata)}, seq |-> seq + 1]

\* faulty variant: ON CONFLICT (filepath) DO UPDATE, the metadata is overwritten
InsertFile_upsert(tbl, seq, metadata) ==
    IF \E r \in tbl : r.filepath = metadata.filepath
    THEN [tbl |-> {IF r.filepath = metadata.filepath
                   THEN [r EXCEPT !.filesize = metadata.filesize,
                                  !.date_created = metadata.date_created,
                                  !.duration_seconds = metadata.duration_seconds]
                   ELSE r : r \in tbl},
          seq |-> seq]
    ELSE [tbl |-> tbl \cup {FileRow(seq + 1, metadata)}, seq |-> seq + 1]

\* faulty variant: ON CONFLICT (filepath) DO UPDATE SET processed = FALSE,
\* a file found again is queued again
InsertFile_requeue(tbl, seq, metadata) ==
    IF \E r \in tbl : r.filepath = metadata.filepath
    THEN [tbl |-> {IF r.filepath = metadata.filepath
                   THEN [r EXCEPT !.processed = FALSE]
                   ELSE r : r \in tbl},
          seq |-> seq]
    ELSE [tbl |-> tbl \cup {FileRow(seq + 1, metadata)}, seq |-> seq + 1]

\* INSERT INTO files ... ON CONFLICT (filepath) DO NOTHING
InsertFile(tbl, seq, metadata) ==
    IF \E r \in tbl : r.filepath = metadata.filepath
    THEN [tbl |-> tbl, seq |-> seq]
    ELSE [tbl |-> tbl \cup {FileRow(seq + 1, metadata)}, seq |-> seq + 1]

\* the loop of lines 110-117 over the files not yet visited; the order of
\* the glob only decides which id a new row gets
RECURSIVE RegisterAll(_, _, _, _)
RegisterAll(todo, dsk, tbl, seq) ==
    IF todo = {} THEN [tbl |-> tbl, seq |-> seq]
    ELSE LET p == CHOOSE q \in todo : TRUE
             ins == InsertFile(tbl, seq, get_file_metadata(dsk, p))
         IN  RegisterAll(todo \ {p}, dsk, ins.tbl, ins.seq)

\* faulty variant: the WHERE clause is missing
SelectUnprocessed_all(tbl) == {r.filepath : r \in tbl}

\* SELECT filepath FROM files WHERE processed = FALSE
SelectUnprocessed(tbl) == {r.filepath : r \in {x \in tbl : ~x.processed}}

\* The whole call: it raises when the metadata of any globbed file cannot
\* be read (nothing is committed then), otherwise it commits the
\* registrations and returns the unprocessed paths.
get_unprocessed_files(tbl, seq, dsk) ==
    IF \E p \in Glob(dsk) : get_file_metadata(dsk, p).exc # "none"
    THEN [exc |-> "CouldntDecodeError", tbl |-> tbl, seq |-> seq, rows |-> {}]
    ELSE LET reg == RegisterAll(Glob(dsk), dsk, tbl, seq)
         IN  [exc |-> "none", tbl |-> reg.tbl, seq |-> reg.seq,
              rows |-> SelectUnprocessed(reg.tbl)]

(* ---------------------------------------------------------------------- *)
(* Sentence segmentation (process_file_transcripts, lines 204-229)         *)
(* ---------------------------------------------------------------------- *)
IsTerminal(c) == c \in {".", "!", "?"}
IsSpace(c) == c = " "

\* ' '.join(texts)
RECURSIVE Join(_)
Join(texts) ==
    IF Len(texts) = 0 THEN <<>>
    ELSE IF Len(texts) = 1 THEN texts[1]
    ELSE texts[1] \o <<" ">> \o Join(Tail(texts))

\* re.split(r'[.!?]+', s): the pieces between maximal runs of terminal
\* characters, empty pieces at either end included
RECURSIVE ReSplit(_, _, _, _)
ReSplit(s, k, cur, acc) ==
    IF k > Len(s) THEN Append(acc, cur)
    ELSE IF IsTerminal(s[k])
    THEN IF k > 1 /\ IsTerminal(s[k - 1])
         THEN ReSplit(s, k + 1, cur, acc)
         ELSE ReSplit(s, k + 1, <<>>, Append(acc, cur))
    ELSE ReSplit(s, k + 1, Append(cur, s[k]), acc)

\* s.strip()
RECURSIVE LStrip(_)
LStrip(s) == IF Len(s) > 0 /\ IsSpace(s[1]) THEN LStrip(Tail(s)) ELSE s

RECURSIVE RStrip(_)
RStrip(s) ==
    IF Len(s) > 0 /\ IsSpace(s[Len(s)]) THEN RStrip(SubSeq(s, 1, Len(s) - 1)) ELSE s

Strip(s) == RStrip(LStrip(s))

\* len(sentence.split()): the number of maximal runs of non-space characters
WordCount(s) ==
    Cardinality({k \in DOMAIN s : ~IsSpace(s[k]) /\ (k = 1 \/ IsSpace(s[k - 1]))})

\* faulty variant: the pieces are stored as they are split, untrimmed
Sentences_untrimmed(full_text) ==
    LET pieces == ReSplit(full_text, 1, <<>>, <<>>)
    IN  SelectSeq(pieces, LAMBDA x : Strip(x) # <<>>)

\* faulty variant: the pieces are trimmed, the empty ones are kept
Sentences_unfiltered(full_text) ==
    LET pieces == ReSplit(full_text, 1, <<>>, <<>>)
    IN  [k \in DOMAIN pieces |-> Strip(pieces[k])]

\* [s.strip() for s in re.split(r'[.!?]+', full_text) if s.strip()]
Sentences(full_text) ==
    LET pieces == ReSplit(full_text, 1, <<>>, <<>>)
        stripped == [k \in DOMAIN pieces |-> Strip(pieces[k])]
    IN  SelectSeq(stripped, LAMBDA x : x # <<>>)

\* nth: the row is the nth INSERT of its call (its id relative to the
\* call's first id)
SentenceRow(nth, file_id, sentence) ==
    [nth |-> nth, file_id |-> file_id, sentence |-> sentence,
     word_count |-> WordCount(sentence)]

\* the committed transcript rows of a file, one element per copy
RowsOf(t_tbl, file_id) ==
    UNION {{<<r, c>> : c \in 1..CopiesIn(r, t_tbl)} :
             r \in {x \in BagToSet(t_tbl) : x.file_id = file_id}}

\* the sequences of rows a query may return for "ORDER BY time_from": every
\* order of S that is sorted by time_from
RECURSIVE SortedOrders(_)
SortedOrders(S) ==
    IF S = {} THEN {<<>>}
    ELSE UNION {{<<x[1]>> \o s : s \in SortedOrders(S \ {x})} :
                  x \in {y \in S : \A z \in S : y[1].time_from <= z[1].time_from}}

\* "SELECT transcript FROM transcripts WHERE file_id = %s ORDER BY time_from"
OrderedByTimeFrom(t_tbl, file_id) == SortedOrders(RowsOf(t_tbl, file_id))

\* the rows one call inserts for one order of the file's transcripts
SentenceRows(file_id, ordered) ==
    LET sen == Sentences(Join([k \in DOMAIN ordered |-> ordered[k].transcript]))
    IN  [k \in DOMAIN sen |-> SentenceRow(k, file_id, sen[k])]

\* faulty variant: the query does not look at the sentences table
SelectUnsegmented_again(f_tbl, t_tbl, s_tbl) ==
    {f.id : f \in {x \in f_tbl :
                     /\ \E t \in BagToSet(t_tbl) : t.file_id = x.id
                     /\ x.processed}}

\* the discovery query of lines 233-239
SelectUnsegmented(f_tbl, t_tbl, s_tbl) ==
    {f.id : f \in {x \in f_tbl :
                     /\ \E t \in BagToSet(t_tbl) : t.file_id = x.id
                     /\ ~\E s \in BagToSet(s_tbl) : s.file_id = x.id
                     /\ x.processed}}

(* ---------------------------------------------------------------------- *)
(* Recognizer outputs                                                      *)
(* ---------------------------------------------------------------------- *)
R_two == <<Chunk(Secs(0), Secs(5), <<"a", ".">>),
           Chunk(Secs(5), Secs(10), <<"b", " ", "c", "?">>)>>
R_mixed == <<Chunk(None, None, <<"a">>),
             Chunk(YearOutOfRange, Secs(5), <<"a">>),
             Chunk(Secs(5), NotANumber, <<"a">>),
             Chunk(Secs(10), Secs(20), <<"b", "?", "!", " ", "c">>)>>
R_overflow == <<Chunk(Secs(0), Secs(5), <<"a", ".">>),
                Chunk(Secs(5), TimeTOverflow, <<"b">>)>>
R_notext == <<Chunk(Secs(0), Secs(5), <<"a">>),
              Chunk(Secs(5), Secs(10), NoText)>>
R_tie == <<Chunk(Secs(86405), Secs(86410), <<"b", ".">>),
           Chunk(Secs(5), Secs(10), <<"a", ".">>)>>
R_silent == <<Chunk(Secs(0), None, <<"a">>),
              Chunk(Secs(0), Secs(5), <<".", " ">>)>>

Results == {R_two, R_mixed, R_overflow, R_notext, R_tie, R_silent}

\* the recognizers explored: any output for P_ymd, two for P_dmy (the chunk
\* loop is never reached for P_bad)
Recognizers ==
    {f \in [Paths -> Results] :
        /\ f[P_dmy] \in {R_two, R_overflow}
        /\ f[P_bad] = R_two
        /\ f[P_late] = R_two}

(* ---------------------------------------------------------------------- *)
(* State                                                                   *)
(* ---------------------------------------------------------------------- *)
VARIABLES
    disk,            \* files of the audio folder -> what the disk holds
    asr,             \* the recognizer: path -> its chunks for that audio
    temp_left,       \* the .flac file of the latest transcribe_audio call exists
    files,           \* committed rows of table files
    transcripts,     \* committed rows of table transcripts
    sentences,       \* committed rows of table sentences
    files_seq,       \* last value of files.id's sequence
    pc,              \* "idle", "transcribe", "store" (first_step), "segment"
    runs,            \* first_step runs started
    unprocessed,     \* first_step: the worklist
    i,               \* first_step: position in the worklist
    tx_rows,         \* db connection: transcript rows inserted, not committed
    tx_aborted,      \* db connection: its transaction is aborted
    log,             \* first_step: per path, what the current run printed
    file_ids,        \* process_all_unprocessed: the worklist
    j,               \* process_all_unprocessed: position in the worklist
    post_aborted,    \* post connection: its transaction is aborted
    seg_log,         \* process_all_unprocessed: per file id, what was printed
    last,            \* the latest successful get_unprocessed_files call
    changed,         \* the folder has changed since that call
    calls            \* method calls made from outside the two loops

vars == <<disk, asr, temp_left, files, transcripts, sentences, files_seq, pc,
          runs, unprocessed, i, tx_rows, tx_aborted, log, file_ids, j,
          post_aborted, seg_log, last, changed, calls>>

store_vars == <<files, transcripts, sentences, files_seq>>
first_vars == <<runs, unprocessed, i, tx_rows, tx_aborted, log, last>>
post_vars == <<file_ids, j, post_aborted, seg_log>>

\* a line of the log: status "ok" (line 56) or "error" (line 58), the
\* exception, the number of committed transcript rows the file had when
\* store_transcription was called and the number of rows the call inserted
NoLog == [status |-> "none", exc |-> "none", held |-> 0, rows |-> 0]
\* the latest successful call: the files table and the result it left, and
\* whether it repeated the call before it (no change of the folder and no
\* commit of store_transcription in between)
NoCall == [valid |-> FALSE, files |-> {}, rows |-> {}, again |-> FALSE]

Init ==
    /\ disk = [p \in Folder |-> Meta1]
    /\ asr \in Recognizers
    /\ temp_left = FALSE
    /\ files = {}
    /\ transcripts = EmptyBag
    /\ sentences = EmptyBag
    /\ files_seq = 0
    /\ pc = "idle"
    /\ runs = 0
    /\ unprocessed = <<>>
    /\ i = 1
    /\ tx_rows = EmptyBag
    /\ tx_aborted = FALSE
    /\ log = [p \in Paths |-> NoLog]
    /\ file_ids = <<>>
    /\ j = 1
    /\ post_aborted = FALSE
    /\ seg_log = <<>>
    /\ last = NoCall
    /\ changed = FALSE
    /\ calls = 0

(* ---------------------------------------------------------------------- *)
(* The operator of the recordings, between runs                            *)
(* ---------------------------------------------------------------------- *)
\* a new recording appears in the folder
AddFile ==
    /\ pc = "idle"
    /\ Arrivals \cap DOMAIN disk = {}
    /\ \E p \in Arrivals : \E m \in {Meta1, Malformed} :
          disk' = (p :> m) @@ disk
    /\ changed' = TRUE
    /\ UNCHANGED <<asr, temp_left, store_vars, pc, first_vars, post_vars, calls>>

\* a recording is rewritten: same path, other size, time and duration
TouchFile ==
    /\ pc = "idle"
    /\ \E p \in DOMAIN disk \cap Rewritable :
          /\ disk[p] # Meta2
          /\ disk' = [disk EXCEPT ![p] = Meta2]
    /\ changed' = TRUE
    /\ UNCHANGED <<asr, temp_left, store_vars, pc, first_vars, post_vars, calls>>

(* ---------------------------------------------------------------------- *)
(* Transcription stage (convert_to_flac, transcribe_audio, lines 13-45)    *)
(* ---------------------------------------------------------------------- *)
\* What the collaborators do in one call:
\*   "decode_fails"      AudioSegment.from_file raises (line 15)
\*   "export_fails"      audio.export raises before it created temp_path
\*   "export_fails_late" audio.export raises after it created temp_path
\*   "recognizer_fails"  pipeline(...) or pipe(...) raises (lines 23-43)
\*   "ok"                pipe(...) returns the recognizer's chunks
Collaborators ==
    {"decode_fails", "export_fails", "export_fails_late", "recognizer_fails", "ok"}

\* exc: the call raises; temp_left: the file at temp_path exists afterwards.
\* convert_to_flac runs before the try block, so only the last two outcomes
\* pass through "finally: os.remove(flac_path)".
transcribe_audio(outcome) ==
    IF outcome = "decode_fails" THEN [exc |-> TRUE, temp_left |-> FALSE]
    ELSE IF outcome = "export_fails" THEN [exc |-> TRUE, temp_left |-> FALSE]
    ELSE IF outcome = "export_fails_late" THEN [exc |-> TRUE, temp_left |-> TRUE]
    ELSE IF outcome = "recognizer_fails" THEN [exc |-> TRUE, temp_left |-> FALSE]
    ELSE [exc |-> FALSE, temp_left |-> FALSE]

(* ---------------------------------------------------------------------- *)
(* first_step (lines 47-58)                                                *)
(* ---------------------------------------------------------------------- *)
\* the number of committed transcript rows of the file at filepath
Held(t_tbl, f_tbl, filepath) ==
    Cardinality(RowsOf(t_tbl, FileId(f_tbl, filepath)))

\* db = AudioDatabase("rec"); unprocessed = db.get_unprocessed_files().
\* An exception of get_unprocessed_files leaves first_step; the connection
\* is dropped with nothing committed.
FirstStep ==
    /\ pc = "idle"
    /\ runs + calls < MaxRuns
    /\ runs' = runs + 1
    /\ log' = [p \in Paths |-> NoLog]
    /\ tx_rows' = EmptyBag
    /\ tx_aborted' = FALSE
    /\ LET g == get_unprocessed_files(files, files_seq, disk)
       IN  IF g.exc # "none"
           THEN /\ pc' = "idle"
                /\ UNCHANGED <<files, files_seq, unprocessed, i, last, changed>>
           ELSE /\ files' = g.tbl
                /\ files_seq' = g.seq
                /\ \E w \in Perms(g.rows) : unprocessed' = w
                /\ i' = 1
                /\ pc' = "transcribe"
                /\ last' = [valid |-> TRUE, files |-> g.tbl, rows |-> g.rows,
                            again |-> last.valid /\ ~changed /\ files = last.files]
                /\ changed' = FALSE
    /\ UNCHANGED <<disk, asr, temp_left, transcripts, sentences, post_vars, calls>>

\* result = transcribe_audio(file_path), and the except clause when it raises
TranscribeAudio ==
    /\ pc = "transcribe"
    /\ i <= Len(unprocessed)
    /\ \E outcome \in Collaborators :
         LET file_path == unprocessed[i]
             t == transcribe_audio(outcome)
         IN  /\ temp_left' = t.temp_left
             /\ IF t.exc
                THEN /\ log' = [log EXCEPT ![file_path] =
                                  [status |-> "error", exc |-> "transcribe_audio",
                                   held |-> 0, rows |-> 0]]
                     /\ i' = i + 1
                     /\ pc' = "transcribe"
                ELSE /\ pc' = "store"
                     /\ UNCHANGED <<log, i>>
    /\ UNCHANGED <<disk, asr, store_vars, runs, unprocessed, tx_rows,
                   tx_aborted, last, changed, post_vars, calls>>

\* db.store_transcription(file_path, result), and the except clause when it
\* raises.  A commit makes durable everything the connection has written
\* since its last commit.
StoreTranscription ==
    /\ pc = "store"
    /\ LET file_path == unprocessed[i]
           r == store_transcription(files, tx_aborted, file_path, asr[file_path])
           written == tx_rows (+) BagOfSeq(r.rows)
       IN  /\ IF r.commit
              THEN /\ transcripts' = transcripts (+) written
                   /\ tx_rows' = EmptyBag
                   /\ files' = IF r.mark
                               THEN {IF f.filepath = file_path
                                     THEN [f EXCEPT !.processed = TRUE]
                                     ELSE f : f \in files}
                               ELSE files
              ELSE /\ tx_rows' = IF r.abort THEN EmptyBag ELSE written
                   /\ UNCHANGED <<transcripts, files>>
           /\ tx_aborted' = r.abort
           /\ log' = [log EXCEPT ![file_path] =
                        [status |-> IF r.exc = "none" THEN "ok" ELSE "error",
                         exc |-> r.exc,
                         held |-> Held(transcripts, files, file_path),
                         rows |-> Len(r.rows)]]
    /\ i' = i + 1
    /\ pc' = "transcribe"
    /\ UNCHANGED <<disk, asr, temp_left, sentences, files_seq, runs,
                   unprocessed, last, changed, post_vars, calls>>

\* faulty variant: the connection is committed before it is closed
rows_committed_on_close(written) == written

\* AudioDatabase.__del__ (lines 127-129): closing the connection discards
\* what it has written and not committed
rows_kept_on_close(written) == EmptyBag

\* the loop is over; first_step returns and db is collected
FirstStepReturn ==
    /\ pc = "transcribe"
    /\ i > Len(unprocessed)
    /\ transcripts' = transcripts (+) rows_kept_on_close(tx_rows)
    /\ tx_rows' = EmptyBag
    /\ tx_aborted' = FALSE
    /\ unprocessed' = <<>>
    /\ i' = 1
    /\ pc' = "idle"
    /\ UNCHANGED <<disk, asr, temp_left, files, sentences, files_seq, runs, log,
                   last, changed, post_vars, calls>>

(* ---------------------------------------------------------------------- *)
(* process_all_unprocessed (lines 231-248)                                 *)
(* ---------------------------------------------------------------------- *)
\* One call of process_file_transcripts on the post connection, for one
\* order of the SELECT's rows; accepted says whether the store accepts the
\* call's statements (FALSE: it rejects one, which raises and leaves the
\* transaction aborted).
process_file_transcripts(aborted, file_id, ordered, accepted) ==
    IF aborted
    THEN [exc |-> "InFailedSqlTransaction", rows |-> <<>>, abort |-> TRUE]
    ELSE IF ~accepted
    THEN [exc |-> "OperationalError", rows |-> <<>>, abort |-> TRUE]
    ELSE [exc |-> "none", rows |-> SentenceRows(file_id, ordered),
          abort |-> FALSE]

\* post = PostProcessing(); the discovery query and file_ids
ProcessAllUnprocessed ==
    /\ pc = "idle"
    /\ \E w \in Perms(SelectUnsegmented(files, transcripts, sentences)) :
          /\ file_ids' = w
          /\ seg_log' = [k \in DOMAIN w |-> "none"]
    /\ j' = 1
    /\ post_aborted' = FALSE
    /\ pc' = "segment"
    /\ UNCHANGED <<disk, asr, temp_left, store_vars, first_vars, changed, calls>>

\* one iteration of the loop of lines 243-248
ProcessFileTranscripts ==
    /\ pc = "segment"
    /\ j <= Len(file_ids)
    /\ \E accepted \in BOOLEAN :
       \E ordered \in OrderedByTimeFrom(transcripts, file_ids[j]) :
         LET r == process_file_transcripts(post_aborted, file_ids[j], ordered,
                                           accepted)
         IN  /\ sentences' = sentences (+) BagOfSeq(r.rows)
             /\ post_aborted' = r.abort
             /\ seg_log' = [seg_log EXCEPT ![j] = r.exc]
    /\ j' = j + 1
    /\ UNCHANGED <<disk, asr, temp_left, files, transcripts, files_seq, pc,
                   first_vars, changed, file_ids, calls>>

\* the loop is over; PostProcessing.__del__ closes the connection
ProcessAllReturn ==
    /\ pc = "segment"
    /\ j > Len(file_ids)
    /\ post_aborted' = FALSE
    /\ file_ids' = <<>>
    /\ j' = 1
    /\ seg_log' = <<>>
    /\ pc' = "idle"
    /\ UNCHANGED <<disk, asr, temp_left, store_vars, first_vars, changed, calls>>

(* ---------------------------------------------------------------------- *)
(* The two methods called from outside the loops                           *)
(* ---------------------------------------------------------------------- *)
\* db.store_transcription(file_path, result) on a connection of its own, for
\* a file that has been processed since the caller listed it (a first_step
\* process that read its worklist before another one stored the file)
StoreTranscriptionAgain ==
    /\ pc = "idle"
    /\ runs + calls < MaxRuns
    /\ calls' = calls + 1
    /\ \E f \in {x \in files : x.processed /\ x.filepath \in Recalled} :
         LET r == store_transcription(files, FALSE, f.filepath, asr[f.filepath])
         IN  /\ transcripts' = IF r.commit
                               THEN transcripts (+) BagOfSeq(r.rows)
                               ELSE transcripts
             /\ files' = IF r.commit /\ r.mark
                         THEN {IF x.filepath = f.filepath
                               THEN [x EXCEPT !.processed = TRUE]
                               ELSE x : x \in files}
                         ELSE files
    /\ UNCHANGED <<disk, asr, temp_left, sentences, files_seq, pc, first_vars,
                   post_vars, changed>>

\* post.process_file_transcripts(file_id) on a connection of its own, for
\* the id of a registered file
ProcessFileTranscriptsDirect ==
    /\ pc = "idle"
    /\ runs + calls < MaxRuns
    /\ calls' = calls + 1
    /\ \E f \in {x \in files : x.filepath \in Recalled} :
       \E accepted \in BOOLEAN :
       \E ordered \in OrderedByTimeFrom(transcripts, f.id) :
         LET r == process_file_transcripts(FALSE, f.id, ordered, accepted)
         IN  sentences' = sentences (+) BagOfSeq(r.rows)
    /\ UNCHANGED <<disk, asr, temp_left, files, transcripts, files_seq, pc,
                   first_vars, post_vars, changed>>

Next ==
    \/ AddFile
    \/ TouchFile
    \/ FirstStep
    \/ TranscribeAudio
    \/ StoreTranscription
    \/ FirstStepReturn
    \/ ProcessAllUnprocessed
    \/ ProcessFileTranscripts
    \/ ProcessAllReturn
    \/ StoreTranscriptionAgain
    \/ ProcessFileTranscriptsDirect

Spec == Init /\ [][Next]_vars

(* ---------------------------------------------------------------------- *)
(* Properties                                                              *)
(* ---------------------------------------------------------------------- *)
\* get_unprocessed_files has just returned to first_step
Registered == pc = "transcribe" /\ i = 1
\* a step in which get_unprocessed_files returns to first_step
Registers == pc = "idle" /\ pc' = "transcribe"
\* the first_step loop has attempted every item of its worklist
LoopOver == pc = "transcribe" /\ i > Len(unprocessed)
\* the run of first_step that wrote the log is over
RunOver == pc # "transcribe" /\ pc # "store"

\* store_transcription was called for p in the run of the log, and raised
StoreRaised(p) == log[p].status = "error" /\ log[p].exc # "transcribe_audio"

RowOf(p) == CHOOSE r \in files : r.filepath = p

HasSentence(file_id) == \E x \in BagToSet(sentences) : x.file_id = file_id

\* the sentence rows of a file are those of one order of its transcripts
Segmented(file_id) ==
    \E ordered \in OrderedByTimeFrom(transcripts, file_id) :
       \A x \in BagToSet(sentences) \cup Range(SentenceRows(file_id, ordered)) :
          x.file_id = file_id =>
             CopiesIn(x, sentences) = CopiesIn(x, BagOfSeq(SentenceRows(file_id, ordered)))

\* C1: when process_all_unprocessed runs, every file with at least one
\* transcript row and no sentence row is selected by the discovery query,
\* whatever its processed flag, and has its sentences stored by the run
\* (unless the store rejected the statements of its call).
C1_EveryUnsegmentedFileIsSegmented ==
    /\ (pc = "segment" /\ j = 1) =>
          \A f \in files :
             (Cardinality(RowsOf(transcripts, f.id)) > 0 /\ ~HasSentence(f.id))
                => f.id \in Range(file_ids)
    /\ (pc = "segment" /\ j > Len(file_ids)) =>
          \A k \in DOMAIN file_ids : seg_log[k] = "none" => Segmented(file_ids[k])

\* C2: a file whose store_transcription call raised is not committed as
\* processed by that call nor by a later commit of the run, and the next
\* successful get_unprocessed_files call returns it again.
C2_FailedFileStaysUnprocessed ==
    /\ [](\A p \in Paths : StoreRaised(p) => ~RowOf(p).processed)
    /\ [][Registers => \A p \in Paths : StoreRaised(p) => p \in Range(unprocessed')]_vars

\* a file that has committed chunks of a failed call is in the worklist of a
\* later run, still unprocessed
C2_Witness ==
    /\ Registered
    /\ runs = 2
    /\ \E p \in Range(unprocessed) :
          Held(transcripts, files, p) > 0 /\ ~RowOf(p).processed

\* the rows of p's failed call are committed
Durable(p) == Held(transcripts, files, p) = log[p].held + log[p].rows
\* the rows of p's failed call are not in the store
Discarded(p) == Held(transcripts, files, p) = log[p].held
\* the position of p in the worklist of the current run
At(p) == CHOOSE k \in DOMAIN unprocessed : unprocessed[k] = p
\* a store_transcription call later in the current run reached its commit
LaterCommit(p) ==
    \E q \in Range(unprocessed) : log[q].status = "ok" /\ At(q) > At(p)

\* C3 as stated: once the run is over, the chunks a failed store_transcription
\* call had inserted are in the persistent store, wherever the file was in
\* the worklist.
C3_PartialChunksPersist ==
    (pc = "idle") =>
       \A p \in Paths : (StoreRaised(p) /\ log[p].rows > 0) => Durable(p)

\* C3 as amended: when first_step returns, those chunks are in the persistent
\* store exactly when a later store_transcription call of the same run
\* committed; otherwise the closing connection has discarded them.
C3_PartialChunksPersistIffLaterCommit ==
    [][(LoopOver /\ pc' = "idle") =>
          \A p \in Range(unprocessed) : (StoreRaised(p) /\ log[p].rows > 0) =>
             /\ LaterCommit(p) => Durable(p)'
             /\ ~LaterCommit(p) => Discarded(p)']_vars

C3_Witness ==
    /\ LoopOver
    /\ \E p \in Range(unprocessed) :
          StoreRaised(p) /\ log[p].rows > 0 /\ LaterCommit(p) /\ Durable(p)
    /\ \E p \in Range(unprocessed) :
          StoreRaised(p) /\ log[p].rows > 0 /\ ~LaterCommit(p) /\ Discarded(p)

\* C4: in both loops every item is attempted, and an item whose own steps
\* succeed when taken alone is processed successfully, also after a failure
\* of an earlier item of the run.
C4_FailuresDoNotSpread ==
    /\ LoopOver => \A p \in Range(unprocessed) : log[p].status # "none"
    /\ \A p \in Paths :
          (StoreRaised(p)
             /\ store_transcription(files, FALSE, p, asr[p]).exc = "none")
          => log[p].status = "ok"
    /\ \A k \in DOMAIN seg_log :
          (seg_log[k] # "none"
             /\ \E ordered \in OrderedByTimeFrom(transcripts, file_ids[k]) :
                  process_file_transcripts(FALSE, file_ids[k], ordered, TRUE).exc = "none")
          => seg_log[k] \in {"none", "OperationalError"}

\* a chunk whose two offsets are present and convert to a time of day
ValidChunk(chunk) ==
    /\ Len(chunk.timestamp) = 2
    /\ \A k \in 1..2 : chunk.timestamp[k].kind \notin {"None", "str", "1e13", "1e20"}

ValidChunks(chunks) == Cardinality({k \in DOMAIN chunks : ValidChunk(chunks[k])})

\* C5: for a result whose chunks all have a text, a call that reaches the
\* chunk loop stores one row per valid chunk, skips every other chunk,
\* completes and marks the file processed.
C5_InvalidChunksAreSkipped ==
    \A p \in Paths :
       (/\ log[p].status # "none"
        /\ log[p].exc \notin {"transcribe_audio", "InFailedSqlTransaction"}
        /\ date_recorded(p).exc = "none"
        /\ \A k \in DOMAIN asr[p] : asr[p][k].text # NoText)
       => /\ log[p].status = "ok"
          /\ log[p].rows = ValidChunks(asr[p])
          /\ RowOf(p).processed

\* the base name is a date under neither format
Unparseable(p) ==
    \/ Len(p.stem) # 3
    \/ /\ ~(p.stem[1] >= 1000 /\ p.stem[2] \in 1..12 /\ p.stem[3] >= 1
             /\ p.stem[3] <= DaysInMonth(p.stem[1], p.stem[2]))
       /\ ~(p.stem[3] >= 1000 /\ p.stem[2] \in 1..12 /\ p.stem[1] >= 1
             /\ p.stem[1] <= DaysInMonth(p.stem[3], p.stem[2]))

C7_NoTemporaryFileRemains == temp_left = FALSE

\* C8: a successful get_unprocessed_files call that repeats the previous one
\* (same folder, no commit of store_transcription in between) leaves the
\* same rows in files, one per discovered path, and returns the same set.
C8_RegistrarIsIdempotent ==
    [][(Registers /\ last.valid /\ ~changed /\ files = last.files) =>
          /\ files' = last.files
          /\ Range(unprocessed') = last.rows
          /\ Len(unprocessed') = Cardinality(last.rows)
          /\ \A p \in Glob(disk) :
                Cardinality({r \in files' : r.filepath = p}) = 1]_vars

C8_Witness ==
    /\ Registered
    /\ last.again
    /\ Cardinality(last.rows) >= 2

\* C9: a get_unprocessed_files call leaves every row that files already has
\* as it is, also when the disk now holds other metadata for its path, and
\* does not raise on account of it.
C9_RegisteredRowsAreKept ==
    [][(pc = "idle" /\ runs' = runs + 1) =>
          /\ \A r \in files : r \in files'
          /\ (\A p \in Glob(disk) : disk[p].readable) => pc' = "transcribe"]_vars

C9_Witness ==
    /\ Registered
    /\ \E r \in files :
          /\ r.filepath \in DOMAIN disk
          /\ disk[r.filepath].readable
          /\ disk[r.filepath].filesize # r.filesize
          /\ disk[r.filepath].duration_seconds # r.duration_seconds

\* C10: a successful get_unprocessed_files call returns, once each, exactly
\* the paths of the rows of files that are unprocessed after its own
\* registrations: every newly discovered file, no processed file; and the
\* loop of first_step attempts exactly these paths.
C10_WorklistIsTheUnprocessedFiles ==
    /\ [][Registers =>
            /\ Range(unprocessed') = {r.filepath : r \in {x \in files' : x.processed = FALSE}}
            /\ Len(unprocessed') = Cardinality(Range(unprocessed'))
            /\ \A p \in Glob(disk) :
                  (~\E r \in files : r.filepath = p) => p \in Range(unprocessed')
            /\ \A r \in files' : r.processed => r.filepath \notin Range(unprocessed')]_vars
    /\ [](LoopOver => {p \in Paths : log[p].status # "none"} = Range(unprocessed))

C10_Witness ==
    /\ Registered
    /\ runs = 2
    /\ P_late \in Range(unprocessed)
    /\ \E r \in files : r.processed
    /\ \E r \in files : ~r.processed /\ r.filepath # P_late

\* a file of the folder whose metadata cannot be extracted
Undecodable(dsk) == {p \in Glob(dsk) : ~dsk[p].readable}

\* C11: when the metadata of a candidate file cannot be extracted, the
\* get_unprocessed_files call raises out of first_step (no worklist is
\* built), commits no registration, and files never holds a row for a file
\* whose metadata cannot be extracted.
C11_MetadataFailurePropagates ==
    /\ [][(pc = "idle" /\ runs' = runs + 1 /\ Undecodable(disk) # {}) =>
            /\ pc' = "idle"
            /\ unprocessed' = <<>>
            /\ files' = files]_vars
    /\ [](\A r \in files : r.filepath \notin Undecodable(disk))

\* a run has ended in get_unprocessed_files: no file is registered although
\* the folder holds decodable recordings next to the undecodable one
C11_Witness ==
    /\ pc = "idle"
    /\ runs >= 1
    /\ files = {}
    /\ Undecodable(disk) # {}
    /\ Glob(disk) \ Undecodable(disk) # {}

\* the sentence rows of a file
SentencesOf(s_tbl, file_id) ==
    [x \in {y \in BagToSet(s_tbl) : y.file_id = file_id} |-> CopiesIn(x, s_tbl)]

\* C12: a run of process_all_unprocessed never has a file with a sentence
\* row among the files it selected and has still to process, and no step of
\* a run adds, changes or removes a sentence row of a file that has one;
\* this also when transcript rows were added for the file after its
\* sentences were stored.
C12_SegmentedOnce ==
    /\ [](pc = "segment" =>
            /\ Len(file_ids) = Cardinality(Range(file_ids))
            /\ \A k \in j..Len(file_ids) : ~HasSentence(file_ids[k]))
    /\ [][(pc = "segment" \/ pc' = "segment") =>
            \A f \in files : HasSentence(f.id) =>
               SentencesOf(sentences', f.id) = SentencesOf(sentences, f.id)]_vars

\* a run that has selected some file and left out a file that has sentences
\* and has got more transcript rows since they were stored
C12_Witness ==
    /\ pc = "segment"
    /\ j > Len(file_ids)
    /\ \E k \in DOMAIN file_ids : seg_log[k] = "none" /\ HasSentence(file_ids[k])
    /\ \E f \in files :
          /\ f.id \notin Range(file_ids)
          /\ HasSentence(f.id)
          /\ Cardinality(RowsOf(transcripts, f.id)) > ValidChunks(asr[f.filepath])
          /\ ~Segmented(f.id)

\* the committed transcript row that holds a chunk of the file f
Stored(f, chunk) ==
    \E x \in BagToSet(transcripts) :
       /\ x.file_id = f.id
       /\ x.date_recorded = date_recorded(f.filepath).date
       /\ x.time_from = chunk.timestamp[1].v % 86400
       /\ x.time_to = chunk.timestamp[2].v % 86400
       /\ x.transcript = chunk.text

\* C13: in the committed store, a file with processed = TRUE has a
\* transcript row for every valid chunk of its transcription result, and at
\* least as many rows as the result has valid chunks (so it has no row only
\* when every chunk was discarded).
C13_ProcessedFileHasItsChunks ==
    \A f \in files : f.processed =>
       /\ \A k \in DOMAIN asr[f.filepath] :
             ValidChunk(asr[f.filepath][k]) => Stored(f, asr[f.filepath][k])
       /\ Cardinality(RowsOf(transcripts, f.id)) >= ValidChunks(asr[f.filepath])

\* a processed file whose result had discarded chunks before its valid one
C13_Witness ==
    \E f \in files :
       /\ f.processed
       /\ asr[f.filepath] = R_mixed
       /\ Cardinality(RowsOf(transcripts, f.id)) = 1
       /\ \E g \in files : ~g.processed /\ Cardinality(RowsOf(transcripts, g.id)) > 0

\* C14: the commit of a store_transcription call of first_step makes durable
\* transcript rows of the file of that call only, never rows that an
\* earlier, failed call of the run wrote for another file.
C14_CommitsAreIndependent ==
    [][pc = "store" =>
          \A x \in BagToSet(transcripts') :
             CopiesIn(x, transcripts') > CopiesIn(x, transcripts) =>
                x.file_id = FileId(files, unprocessed[i])]_vars

\* The segmentation rule, stated on positions of the text: a piece is a
\* maximal interval without '.', '!' or '?'; it counts when it holds a
\* character that is not white space, and is trimmed to the span from its
\* first to its last such character.
Pieces(t) ==
    LET stop(k) == t[k] \in {".", "!", "?"}
        starts == {a \in 1..Len(t) : ~stop(a) /\ (a = 1 \/ stop(a - 1))}
        ends == {b \in 1..Len(t) : ~stop(b) /\ (b = Len(t) \/ stop(b + 1))}
        end(a) == CHOOSE b \in ends : b >= a /\ \A c \in ends : c >= a => b <= c
    IN  {I \in {<<a, end(a)>> : a \in starts} :
            \E k \in I[1]..I[2] : t[k] # " "}

Trimmed(t, I) ==
    LET inked == {k \in I[1]..I[2] : t[k] # " "}
        a == CHOOSE k \in inked : \A m \in inked : k <= m
        b == CHOOSE k \in inked : \A m \in inked : k >= m
    IN  [k \in 1..(b - a + 1) |-> t[a + k - 1]]

\* the number of white-space delimited tokens: the ends of the runs of
\* characters that are not white space
Tokens(x) ==
    Cardinality({k \in DOMAIN x : x[k] # " " /\ (k = Len(x) \/ x[k + 1] = " ")})

\* the rows the rule asks for: the nth piece from the left with its tokens
RuleRows(file_id, t) ==
    LET P == Pieces(t)
        row(I) == LET x == Trimmed(t, I)
                  IN  [nth |-> 1 + Cardinality({K \in P : K[1] < I[1]}),
                       file_id |-> file_id, sentence |-> x,
                       word_count |-> Tokens(x)]
    IN  {row(I) : I \in P}

\* the text of a file for one order of its transcript rows: the texts with
\* one space between two of them
SpaceJoined(ordered) == Join([n \in DOMAIN ordered |-> ordered[n].transcript])

\* a call of process_file_transcripts for file_id that returned has added
\* to sentences exactly the rows of the rule, once each
StoresTheRule(file_id) ==
    \E t \in {SpaceJoined(ordered) :
                ordered \in OrderedByTimeFrom(transcripts, file_id)} :
       LET want == RuleRows(file_id, t)
       IN  /\ \A x \in want : CopiesIn(x, sentences') = CopiesIn(x, sentences) + 1
           /\ \A x \in BagToSet(sentences') \ want :
                 CopiesIn(x, sentences') = CopiesIn(x, sentences)

\* C15: a call of process_file_transcripts that returns stores exactly the
\* trimmed, non-empty pieces between the runs of '.', '!' and '?' of the
\* space-joined text, in order, each with its number of tokens; every stored
\* sentence is non-empty, trimmed, free of '.', '!', '?' and has
\* word_count >= 1.
C15_SentencesFollowTheRule ==
    /\ [][(pc = "segment" /\ j' = j + 1 /\ seg_log'[j] = "none") =>
            StoresTheRule(file_ids[j])]_vars
    /\ [][(calls' = calls + 1 /\ sentences' # sentences) =>
            \E f \in files : StoresTheRule(f.id)]_vars
    /\ [](\A x \in BagToSet(sentences) :
            /\ x.sentence # <<>>
            /\ x.sentence[1] # " " /\ x.sentence[Len(x.sentence)] # " "
            /\ \A k \in DOMAIN x.sentence : x.sentence[k] \notin {".", "!", "?"}
            /\ x.word_count >= 1)

\* a text with a run of two terminal characters and a text with a sentence
\* of two words have been segmented
C15_Witness ==
    /\ pc = "segment"
    /\ j > Len(file_ids)
    /\ \E x \in BagToSet(sentences) :
          x.file_id \in Range(file_ids) /\ x.nth = 2 /\ x.sentence = <<"c">>
    /\ \E x \in BagToSet(sentences) :
          /\ x.file_id \in Range(file_ids)
          /\ x.sentence = <<"b", " ", "c">>
          /\ x.word_count = 2

\* C16: the sentence rows a run of process_all_unprocessed stores for a
\* file are fixed by the file's transcript rows: they are the rows of every
\* order in which the query may return those transcript rows, also when two
\* of them have the same time_from.
C16_SentencesAreDetermined ==
    (pc = "segment") =>
       \A k \in 1..(j - 1) : seg_log[k] = "none" =>
          \A ordered \in OrderedByTimeFrom(transcripts, file_ids[k]) :
             SentencesOf(sentences, file_ids[k])
                = BagOfSeq(SentenceRows(file_ids[k], ordered))

\* a step of store_transcription, in the loop of first_step or outside it
StoreStep == pc = "store" \/ (calls' = calls + 1 /\ transcripts' # transcripts)
\* a step of the segmentation stage, in its loop or outside it
SegmentStep ==
    pc = "segment" \/ pc' = "segment" \/ (calls' = calls + 1 /\ sentences' # sentences)
\* a step of get_unprocessed_files
RegisterStep == pc = "idle" /\ runs' = runs + 1

\* C17: no step removes a row of files or changes one otherwise than by
\* setting its processed flag from FALSE to TRUE in store_transcription; no
\* step removes or changes a row of transcripts; the segmentation stage
\* leaves files and transcripts as they are, registration leaves
\* transcripts and sentences as they are.
C17_RowsAreOnlyAdded ==
    [][/\ \A r \in files :
             \/ r \in files'
             \/ /\ StoreStep
                /\ ~r.processed
                /\ [r EXCEPT !.processed = TRUE] \in files'
       /\ \A r \in files' : r.processed =>
             \/ r \in files
             \/ StoreStep /\ [r EXCEPT !.processed = FALSE] \in files
       /\ \A x \in BagToSet(transcripts) :
             CopiesIn(x, transcripts') >= CopiesIn(x, transcripts)
       /\ SegmentStep => files' = files /\ transcripts' = transcripts
       /\ RegisterStep => transcripts' = transcripts /\ sentences' = sentences]_vars

\* a second registration has run over a store that holds a processed file,
\* transcript rows and sentence rows
C17_Witness ==
    /\ Registered
    /\ runs = 2
    /\ \E r \in files : r.processed /\ HasSentence(r.id)
    /\ \E r \in files : ~r.processed /\ Cardinality(RowsOf(transcripts, r.id)) > 0

\* C18: in every committed state, whatever calls of process_all_unprocessed
\* and process_file_transcripts were made, every row of sentences belongs
\* to a file that has at least one row in transcripts.
C18_SentencesOnlyForFilesWithChunks ==
    \A x \in BagToSet(sentences) :
       \E t \in BagToSet(transcripts) : t.file_id = x.file_id

\* process_file_transcripts has been called from outside the loop while no
\* registered file had a transcript row, and sentences was left empty
C18_Witness ==
    /\ calls >= 1
    /\ files # {}
    /\ transcripts = EmptyBag
    /\ sentences = EmptyBag

\* C19: over runs of first_step alone, the number of transcript rows held
\* for a file never exceeds the number of valid chunks of its transcription
\* result, also when a run failed part-way through the file and a later run
\* retried it.
C19_NoChunkIsStoredTwice ==
    (calls = 0) =>
       \A f \in files :
          Cardinality(RowsOf(transcripts, f.id)) <= ValidChunks(asr[f.filepath])

\* C20: when the loop of process_all_unprocessed has ended without an error
\* for any file, the discovery query selects no file any more: a run that
\* followed at once would have an empty worklist, also when the text of a
\* selected file gave no sentence.
C20_SegmentationWorklistConverges ==
    (/\ pc = "segment"
     /\ j > Len(file_ids)
     /\ \A k \in DOMAIN seg_log : seg_log[k] = "none")
    => SelectUnsegmented(files, transcripts, sentences) = {}

====
